---- MODULE Spec2Model ----
(***************************************************************************)
(* Model of the in-memory Node Registry (arp_template_node_registry).      *)
(*                                                                         *)
(* Strings are sequences of one-character strings, so that the regular     *)
(* expression, str.split, str.isdigit, int() and Python's code-point       *)
(* string ordering are computed rather than assumed.  Characters are       *)
(* restricted to ASCII (newline and the printable range).                  *)
(***************************************************************************)
EXTENDS Integers, Sequences, FiniteSets, TLC

VARIABLES
    store,      \* self._store    : dict[(node_type_id, version) -> NodeType]
    versions,   \* self._versions : defaultdict(list), node_type_id -> [version]
    result,     \* the last call: its name, its request, and what it returned or raised
    order,      \* the insertion order of the keys of self._store (a dict iterates in it)
    clock,      \* the reading of the wall clock that now() returns
    tasks       \* the publish_node_type coroutines handed to the event loop

vars == <<store, versions, result, order, clock, tasks>>

\* The registry object: the two dictionaries its methods read, and the order
\* in which self._store iterates.
Self ==
    [_service_name |-> "arp-template-node-registry",
     _service_version |-> "__version__",
     _store |-> store, _versions |-> versions, _order |-> order]

-----------------------------------------------------------------------------
(* Python values *)

\* Python's None; no string of the model equals it (a string's elements are
\* single characters).
None == <<"None">>

\* The printable ASCII characters in code-point order: 32 .. 95 and 97 .. 126
\* (the grave accent, 96, cannot be written in a string of this language and is
\* left out of the alphabet).
AsciiLow ==
    << " ", "!", "\"", "#", "$", "%", "&", "'", "(", ")", "*", "+", ",", "-", ".", "/",
       "0", "1", "2", "3", "4", "5", "6", "7", "8", "9", ":", ";", "<", "=", ">", "?",
       "@", "A", "B", "C", "D", "E", "F", "G", "H", "I", "J", "K", "L", "M", "N", "O",
       "P", "Q", "R", "S", "T", "U", "V", "W", "X", "Y", "Z", "[", "\\", "]", "^", "_" >>

AsciiHigh ==
    << "a", "b", "c", "d", "e", "f", "g", "h", "i", "j", "k", "l", "m", "n", "o",
       "p", "q", "r", "s", "t", "u", "v", "w", "x", "y", "z", "{", "|", "}", "~" >>

\* The characters of the model.
Chars ==
    {"\n"} \cup {AsciiLow[i] : i \in 1..Len(AsciiLow)}
           \cup {AsciiHigh[i] : i \in 1..Len(AsciiHigh)}

\* The code point of every character.
CodePoint ==
    [c \in Chars |->
        IF c = "\n" THEN 10
        ELSE IF \E i \in 1..Len(AsciiLow) : AsciiLow[i] = c
        THEN 31 + (CHOOSE i \in 1..Len(AsciiLow) : AsciiLow[i] = c)
        ELSE 96 + (CHOOSE i \in 1..Len(AsciiHigh) : AsciiHigh[i] = c)]

\* ord(c)
Ord(c) == CodePoint[c]

\* Python's str < str: lexicographic by code point, a proper prefix is smaller.
RECURSIVE StrLess(_, _)
StrLess(a, b) ==
    IF b = <<>> THEN FALSE
    ELSE IF a = <<>> THEN TRUE
    ELSE IF Ord(a[1]) # Ord(b[1]) THEN Ord(a[1]) < Ord(b[1])
    ELSE StrLess(Tail(a), Tail(b))

\* xs, a sorted list, with x inserted after every element that is <= x.
Insert(xs, x) ==
    LET k == Cardinality({i \in 1..Len(xs) : ~StrLess(x, xs[i])})
    IN  SubSeq(xs, 1, k) \o <<x>> \o SubSeq(xs, k + 1, Len(xs))

\* sorted(xs) for a list of strings (stable).
RECURSIVE sorted(_)
sorted(xs) ==
    IF xs = <<>> THEN <<>>
    ELSE Insert(sorted(SubSeq(xs, 1, Len(xs) - 1)), xs[Len(xs)])

\* The index of the first occurrence of character c in s, 0 when there is none.
FirstIndex(s, c) ==
    IF \E i \in 1..Len(s) : s[i] = c
    THEN CHOOSE i \in 1..Len(s) : s[i] = c /\ \A j \in 1..(i - 1) : s[j] # c
    ELSE 0

\* [0-9]
IsDigit(c) == Ord(c) >= Ord("0") /\ Ord(c) <= Ord("9")

\* [0-9A-Za-z.-]
IsIdentChar(c) ==
    \/ IsDigit(c)
    \/ Ord(c) >= Ord("A") /\ Ord(c) <= Ord("Z")
    \/ Ord(c) >= Ord("a") /\ Ord(c) <= Ord("z")
    \/ c = "."
    \/ c = "-"

\* str.isdigit() on ASCII text: non-empty and every character a digit.
isdigit(s) == s # <<>> /\ \A i \in 1..Len(s) : IsDigit(s[i])

\* int(s) for a string of decimal digits.
RECURSIVE int(_)
int(s) ==
    IF s = <<>> THEN 0
    ELSE 10 * int(SubSeq(s, 1, Len(s) - 1)) + (Ord(s[Len(s)]) - Ord("0"))

\* s.split(".")
RECURSIVE split(_)
split(s) ==
    LET i == FirstIndex(s, ".")
    IN  IF i = 0 THEN <<s>>
        ELSE <<SubSeq(s, 1, i - 1)>> \o split(SubSeq(s, i + 1, Len(s)))

-----------------------------------------------------------------------------
(* Semantic versions *)

\* (0|[1-9]\d*) matching the whole of s.
IsNumericField(s) == isdigit(s) /\ (Len(s) = 1 \/ s[1] # "0")

\* The longest prefix of s made of digits.
DigitPrefix(s) ==
    LET n == IF \E i \in 1..Len(s) : ~IsDigit(s[i])
             THEN (CHOOSE i \in 1..Len(s) :
                       ~IsDigit(s[i]) /\ \A j \in 1..(i - 1) : IsDigit(s[j])) - 1
             ELSE Len(s)
    IN  SubSeq(s, 1, n)

\* s without the newline that ends it, if one does: `$` matches at the end of
\* the string and also just before a newline that ends the string.
BeforeFinalNewline(s) ==
    IF s # <<>> /\ s[Len(s)] = "\n" THEN SubSeq(s, 1, Len(s) - 1) ELSE s

\* s without a leading "v": v?
AfterOptionalV(s) == IF s # <<>> /\ s[1] = "v" THEN Tail(s) ELSE s

\* [0-9A-Za-z.-]+ matching the whole of s.
IsIdentifiers(s) == s # <<>> /\ \A i \in 1..Len(s) : IsIdentChar(s[i])

\* (?:-([0-9A-Za-z.-]+))?(?:\+[0-9A-Za-z.-]+)?$ matching the whole of s, where
\* plus is the index of the first "+" of s (0: none).  The first class holds no
\* "+", so the prerelease ends where the first "+" stands.
SuffixMatches(s, plus) ==
    /\ s = <<>> \/ s[1] = "-" \/ plus = 1
    /\ (s # <<>> /\ s[1] = "-") =>
           IsIdentifiers(SubSeq(s, 2, IF plus = 0 THEN Len(s) ELSE plus - 1))
    /\ plus # 0 => IsIdentifiers(SubSeq(s, plus + 1, Len(s)))

\* Group 4 of a suffix that matches: the prerelease, None when there is none.
SuffixGroup(s, plus) ==
    IF s # <<>> /\ s[1] = "-"
    THEN SubSeq(s, 2, IF plus = 0 THEN Len(s) ELSE plus - 1)
    ELSE None

\* The third numeric group, patch, found at the start of s, and the suffix.
MatchSuffix(major, minor, patch, s) ==
    LET suffix == SubSeq(s, Len(patch) + 1, Len(s))
    IN  IF IsNumericField(patch) /\ SuffixMatches(suffix, FirstIndex(suffix, "+"))
        THEN <<major, minor, patch, SuffixGroup(suffix, FirstIndex(suffix, "+"))>>
        ELSE None

\* (0|[1-9]\d*)\. at the start of s, dot the index of the first "." of s.
MatchMinor(major, s, dot) ==
    IF dot # 0 /\ IsNumericField(SubSeq(s, 1, dot - 1))
    THEN MatchSuffix(major, SubSeq(s, 1, dot - 1),
                     DigitPrefix(SubSeq(s, dot + 1, Len(s))), SubSeq(s, dot + 1, Len(s)))
    ELSE None

\* (0|[1-9]\d*)\. at the start of s, dot the index of the first "." of s.
MatchMajor(s, dot) ==
    IF dot # 0 /\ IsNumericField(SubSeq(s, 1, dot - 1))
    THEN MatchMinor(SubSeq(s, 1, dot - 1), SubSeq(s, dot + 1, Len(s)),
                    FirstIndex(SubSeq(s, dot + 1, Len(s)), "."))
    ELSE None

\* The groups of the pattern matched against the whole of s.
MatchVersion(s) == MatchMajor(s, FirstIndex(s, "."))

\* _SEMVER_RE.match(version): None, or the groups <<1, 2, 3, 4>> of
\*   ^v?(0|[1-9]\d*)\.(0|[1-9]\d*)\.(0|[1-9]\d*)(?:-([0-9A-Za-z.-]+))?(?:\+[0-9A-Za-z.-]+)?$
\* Group 4 is None when the prerelease part is absent.
_SEMVER_RE_match(version) == MatchVersion(AfterOptionalV(BeforeFinalNewline(version)))

\* Every prerelease identifier kept as text, the numeric ones too.
PrereleasePart_always_string(part) == <<1, part>>

\* One prerelease identifier of the key: (0, int(part)) or (1, part).
PrereleasePart(part) == IF isdigit(part) THEN <<0, int(part)>> ELSE <<1, part>>

\* The prerelease identifiers of the key: tuple(parts).
PrereleaseParts(parts) == [i \in 1..Len(parts) |-> PrereleasePart(parts[i])]

\* _semver_key with the release flag the wrong way round: 0 for a release, 1 for
\* a prerelease.
KeyOfMatch_release_flag_swapped(match) ==
    IF match = None THEN None
    ELSE IF match[4] = None
    THEN <<int(match[1]), int(match[2]), int(match[3]), 0, <<>>>>
    ELSE <<int(match[1]), int(match[2]), int(match[3]), 1,
           PrereleaseParts(split(match[4]))>>

\* _semver_key, from the match on: None, or the key of the groups.
KeyOfMatch(match) ==
    IF match = None THEN None
    ELSE IF match[4] = None
    THEN <<int(match[1]), int(match[2]), int(match[3]), 1, <<>>>>
    ELSE <<int(match[1]), int(match[2]), int(match[3]), 0,
           PrereleaseParts(split(match[4]))>>

_semver_key(version) == KeyOfMatch(_SEMVER_RE_match(version))

\* The number of digits above which int() refuses a string
\* (sys.int_max_str_digits as the interpreter starts).
int_max_str_digits == 4300

\* int(s) raises ValueError, s a string of decimal digits.
IntRaises(s) == Len(s) > int_max_str_digits

\* _semver_key, from the match on, raises ValueError: one of the int() calls
\* does, on MAJOR, MINOR or PATCH or on a numeric prerelease identifier.
KeyRaises(match) ==
    /\ match # None
    /\ \/ IntRaises(match[1])
       \/ IntRaises(match[2])
       \/ IntRaises(match[3])
       \/ /\ match[4] # None
          /\ \E i \in 1..Len(split(match[4])) :
                 isdigit(split(match[4])[i]) /\ IntRaises(split(match[4])[i])

\* _semver_key(version) raises ValueError (no shorter string holds enough
\* digits, and is not matched).
_semver_key_raises(version) ==
    Len(version) > int_max_str_digits /\ KeyRaises(_SEMVER_RE_match(version))

\* Python's < on two prerelease identifiers (0, int) / (1, str): the tags decide
\* first, so an int is never compared with a str.
PartLess(a, b) ==
    \/ a[1] < b[1]
    \/ a[1] = b[1] /\ (IF a[1] = 0 THEN a[2] < b[2] ELSE StrLess(a[2], b[2]))

PartEq(a, b) == ~PartLess(a, b) /\ ~PartLess(b, a)

\* Python's < on two tuples of prerelease identifiers.
RECURSIVE PartsLess(_, _)
PartsLess(a, b) ==
    IF b = <<>> THEN FALSE
    ELSE IF a = <<>> THEN TRUE
    ELSE IF ~PartEq(a[1], b[1]) THEN PartLess(a[1], b[1])
    ELSE PartsLess(Tail(a), Tail(b))

\* Python's < on two keys (major, minor, patch, release flag, prerelease parts).
KeyLess(a, b) ==
    IF a[1] # b[1] THEN a[1] < b[1]
    ELSE IF a[2] # b[2] THEN a[2] < b[2]
    ELSE IF a[3] # b[3] THEN a[3] < b[3]
    ELSE IF a[4] # b[4] THEN a[4] < b[4]
    ELSE PartsLess(a[5], b[5])

-----------------------------------------------------------------------------
(* Requests, responses and errors *)

\* NodeType: the three fields the registry inspects.
NodeType(node_type_id, version, kind) ==
    [node_type_id |-> node_type_id, version |-> version, kind |-> kind]

NodeRegistryPublishNodeTypeRequest(node_type) == [body |-> [node_type |-> node_type]]

NodeRegistryGetNodeTypeRequest(node_type_id, version) ==
    [params |-> [node_type_id |-> node_type_id, version |-> version]]

ArpServerError(code, message, status_code) ==
    [code |-> code, message |-> message, status_code |-> status_code]

\* What a call did: returned a value, or raised an ArpServerError.
Return(value) == [raised |-> FALSE, value |-> value]
Raise(error) == [raised |-> TRUE, value |-> error]

\* The literal pieces of the f-strings of the error messages.
MsgNodeType == <<"N", "o", "d", "e", "T", "y", "p", "e", " ", "'">>
MsgAlreadyExists ==
    <<"'", " ", "a", "l", "r", "e", "a", "d", "y", " ", "e", "x", "i", "s", "t", "s">>
MsgNotFound == <<"'", " ", "n", "o", "t", " ", "f", "o", "u", "n", "d">>
At == <<"@">>

\* f"NodeType '{node_type_id}@{version}' already exists"
AlreadyExistsMessage(node_type_id, version) ==
    MsgNodeType \o node_type_id \o At \o version \o MsgAlreadyExists

\* f"NodeType '{node_type_id}' not found"
NotFoundIdMessage(node_type_id) == MsgNodeType \o node_type_id \o MsgNotFound

\* f"NodeType '{node_type_id}@{version}' not found"
NotFoundVersionMessage(node_type_id, version) ==
    MsgNodeType \o node_type_id \o At \o version \o MsgNotFound

\* The ValueError of int(), which is no ArpServerError.
ValueError == [exception |-> "ValueError"]

AlreadyExists(node_type_id, version) ==
    ArpServerError("node_type_already_exists",
                   AlreadyExistsMessage(node_type_id, version), 409)

NotFoundId(node_type_id) ==
    ArpServerError("node_type_not_found", NotFoundIdMessage(node_type_id), 404)

NotFoundVersion(node_type_id, version) ==
    ArpServerError("node_type_not_found",
                   NotFoundVersionMessage(node_type_id, version), 404)

-----------------------------------------------------------------------------
(* Dictionaries *)

\* d[k] = v
DictSet(d, k, v) == [x \in DOMAIN d \cup {k} |-> IF x = k THEN v ELSE d[x]]

\* d.get(k, default)
DictGet(d, k, default) == IF k \in DOMAIN d THEN d[k] ELSE default

\* The iteration order of a dict after an assignment d[k] = v that left it with
\* the given keys: a new key goes last, an existing key keeps its place.
DictOrder(keys_in_order, keys) ==
    IF \E k \in keys : \A i \in 1..Len(keys_in_order) : keys_in_order[i] # k
    THEN Append(keys_in_order,
                CHOOSE k \in keys : \A i \in 1..Len(keys_in_order) : keys_in_order[i] # k)
    ELSE keys_in_order

\* self._versions[k].append(v) on a defaultdict(list): a missing key is created.
DefaultDictAppend(d, k, v) ==
    DictSet(d, k, Append(DictGet(d, k, <<>>), v))

-----------------------------------------------------------------------------
(* The registry *)

\* One step of a max() that lets the last of several maximal items win.
Better_last_wins(best, item) == IF KeyLess(item[2], best[2]) THEN best ELSE item

\* One step of max(): item replaces the best item so far only when its key is
\* greater.
Better(best, item) == IF KeyLess(best[2], item[2]) THEN item ELSE best

\* max(items, key=lambda item: item[1]) over a non-empty list of (version, key)
\* pairs, visited in order: the first of several maximal items wins.
RECURSIVE max_by_key(_)
max_by_key(items) ==
    IF Len(items) = 1 THEN items[1]
    ELSE Better(max_by_key(SubSeq(items, 1, Len(items) - 1)), items[Len(items)])

\* [(v, _semver_key(v)) for v in versions], without the pairs whose key is None.
IsSemverItem(item) == item[2] # None

semver_versions(vs) ==
    SelectSeq([i \in 1..Len(vs) |-> <<vs[i], _semver_key(vs[i])>>], IsSemverItem)

\* The choice between the two orderings, by string sort alone.
ChooseLatest_string_sort(vs, semver) == sorted(vs)[Len(vs)]

\* The choice between the two orderings, whose fallback takes the most recently
\* published version.
ChooseLatest_fallback_last_published(vs, semver) ==
    IF semver # <<>> THEN max_by_key(semver)[1] ELSE vs[Len(vs)]

\* The choice between the two orderings, taking the semantic-version order only
\* when every version parses and sorting the raw strings as soon as one does not.
ChooseLatest_only_if_all_parse(vs, semver) ==
    IF Len(semver) = Len(vs) THEN max_by_key(semver)[1] ELSE sorted(vs)[Len(vs)]

\* The choice between the two orderings, taking the most recently published of
\* the versions that parse.
ChooseLatest_last_semver_published(vs, semver) ==
    IF semver # <<>> THEN semver[Len(semver)][1] ELSE sorted(vs)[Len(vs)]

\* if semver_versions: max(...)[0]  else: sorted(versions)[-1]
ChooseLatest(vs, semver) ==
    IF semver # <<>> THEN max_by_key(semver)[1] ELSE sorted(vs)[Len(vs)]

\* get_node_type, the resolution of an omitted version over a non-empty list.
latest_version(vs) == ChooseLatest(vs, semver_versions(vs))

\* str(None), as an f-string renders it.
StrNone == <<"N", "o", "n", "e">>

\* get_node_type from the lookup on, version being the requested or the
\* resolved one.  self._store.get(key) is None exactly when key is no key of the
\* store (no stored value is None).
LookUp(self, node_type_id, version) ==
    IF <<node_type_id, version>> \notin DOMAIN self._store
    THEN Raise(NotFoundVersion(node_type_id, version))
    ELSE Return(self._store[<<node_type_id, version>>])

\* get_node_type that resolves the latest version whatever version is asked for.
Resolve_ignores_version(self, node_type_id, version, vs) ==
    IF vs = <<>>
    THEN Raise(NotFoundId(node_type_id))
    ELSE LookUp(self, node_type_id, latest_version(vs))

\* get_node_type whose first error message is a copy of the second one, so
\* that it renders the version, None, after the id.
Resolve_message_copied(self, node_type_id, version, vs) ==
    IF version = None /\ vs = <<>>
    THEN Raise(NotFoundVersion(node_type_id, StrNone))
    ELSE LookUp(self, node_type_id, IF version = None THEN latest_version(vs) ELSE version)

\* get_node_type testing `not version` where the code tests `version is None`:
\* the empty version string is resolved to the latest version too.
Resolve_falsy_version(self, node_type_id, version, vs) ==
    IF (version = None \/ version = <<>>) /\ vs = <<>>
    THEN Raise(NotFoundId(node_type_id))
    ELSE LookUp(self, node_type_id,
                IF version = None \/ version = <<>> THEN latest_version(vs) ELSE version)

\* get_node_type once the parameters are read, vs being
\* self._versions.get(node_type_id) or [].
Resolve(self, node_type_id, version, vs) ==
    IF version = None /\ vs = <<>>
    THEN Raise(NotFoundId(node_type_id))
    ELSE IF version = None /\ \E i \in 1..Len(vs) : _semver_key_raises(vs[i])
    THEN Raise(ValueError)
    ELSE LookUp(self, node_type_id, IF version = None THEN latest_version(vs) ELSE version)

\* get_node_type: what the call returns or raises when the registry is self.
get_node_type(self, request) ==
    Resolve(self, request.params.node_type_id, request.params.version,
            DictGet(self._versions, request.params.node_type_id, <<>>))

\* publish_node_type that puts the new version at the front of the list of its
\* id (versions.insert(0, version)).
publish_node_type_prepend(request) ==
    LET node_type == request.body.node_type
        key == <<node_type.node_type_id, node_type.version>>
    IN  IF key \in DOMAIN store
        THEN /\ result' = [op |-> "publish_node_type", request |-> request,
                           response |-> Raise(AlreadyExists(node_type.node_type_id,
                                                            node_type.version))]
             /\ UNCHANGED <<store, versions>>
        ELSE /\ store' = DictSet(store, key, node_type)
             /\ versions' = DictSet(versions, node_type.node_type_id,
                                    <<node_type.version>>
                                    \o DictGet(versions, node_type.node_type_id, <<>>))
             /\ result' = [op |-> "publish_node_type", request |-> request,
                           response |-> Return(node_type)]

\* publish_node_type without the conflict check: an existing pair is overwritten
\* and the call succeeds.
publish_node_type_upsert(request) ==
    LET node_type == request.body.node_type
        key == <<node_type.node_type_id, node_type.version>>
    IN  /\ store' = DictSet(store, key, node_type)
        /\ versions' = IF key \in DOMAIN store THEN versions
                       ELSE DefaultDictAppend(versions, node_type.node_type_id,
                                              node_type.version)
        /\ result' = [op |-> "publish_node_type", request |-> request,
                      response |-> Return(node_type)]

\* publish_node_type with the insertions ahead of the conflict check: a
\* conflicting call replaces the payload and appends the version, then raises.
publish_node_type_write_then_check(request) ==
    LET node_type == request.body.node_type
        key == <<node_type.node_type_id, node_type.version>>
    IN  /\ store' = DictSet(store, key, node_type)
        /\ versions' = DefaultDictAppend(versions, node_type.node_type_id,
                                         node_type.version)
        /\ result' = [op |-> "publish_node_type", request |-> request,
                      response |-> IF key \in DOMAIN store
                                   THEN Raise(AlreadyExists(node_type.node_type_id,
                                                            node_type.version))
                                   ELSE Return(node_type)]

\* publish_node_type that indexes the version of a second and later version of
\* an id without storing the entry.
publish_node_type_index_only(request) ==
    LET node_type == request.body.node_type
        key == <<node_type.node_type_id, node_type.version>>
    IN  IF key \in DOMAIN store
        THEN /\ result' = [op |-> "publish_node_type", request |-> request,
                           response |-> Raise(AlreadyExists(node_type.node_type_id,
                                                            node_type.version))]
             /\ UNCHANGED <<store, versions>>
        ELSE /\ store' = IF node_type.node_type_id \in DOMAIN versions THEN store
                         ELSE DictSet(store, key, node_type)
             /\ versions' = DefaultDictAppend(versions, node_type.node_type_id,
                                              node_type.version)
             /\ result' = [op |-> "publish_node_type", request |-> request,
                           response |-> Return(node_type)]

\* publish_node_type: the conflict check, then both insertions, as one step.
publish_node_type(request) ==
    LET node_type == request.body.node_type
        key == <<node_type.node_type_id, node_type.version>>
    IN  IF key \in DOMAIN store
        THEN /\ result' = [op |-> "publish_node_type", request |-> request,
                           response |-> Raise(AlreadyExists(node_type.node_type_id,
                                                            node_type.version))]
             /\ UNCHANGED <<store, versions>>
        ELSE /\ store' = DictSet(store, key, node_type)
             /\ versions' = DefaultDictAppend(versions, node_type.node_type_id,
                                              node_type.version)
             /\ result' = [op |-> "publish_node_type", request |-> request,
                           response |-> Return(node_type)]

-----------------------------------------------------------------------------
(* list_node_types *)

\* The whitespace characters of the alphabet.
IsSpace(c) == c \in {" ", "\n"}

RECURSIVE lstrip(_)
lstrip(s) == IF s # <<>> /\ IsSpace(Head(s)) THEN lstrip(Tail(s)) ELSE s

RECURSIVE rstrip(_)
rstrip(s) ==
    IF s # <<>> /\ IsSpace(s[Len(s)]) THEN rstrip(SubSeq(s, 1, Len(s) - 1)) ELSE s

\* str.strip()
strip(s) == rstrip(lstrip(s))

\* str.lower() of one ASCII character: A-Z become a-z.
LowerChar(c) == IF Ord(c) >= Ord("A") /\ Ord(c) <= Ord("Z") THEN AsciiHigh[Ord(c) - 64] ELSE c

\* str.lower()
lower(s) == [i \in 1..Len(s) |-> LowerChar(s[i])]

\* q in s, for strings
In(q, s) == \E i \in 0..(Len(s) - Len(q)) : SubSeq(s, i + 1, i + Len(q)) = q

\* An optional NodeKind that is present (an absent one is None).
Some(kind) == <<kind>>

NodeRegistryListNodeTypesRequest(q, kind) == [params |-> [q |-> q, kind |-> kind]]

\* (request.params.q or "").strip().lower()
Query(request) ==
    lower(strip(IF request.params.q = None THEN <<>> ELSE request.params.q))

\* self._store.values(): the stored NodeTypes in insertion order.
values(self) == [i \in 1..Len(self._order) |-> self._store[self._order[i]]]

\* The loop body that matches the query against node_type_id as it is stored,
\* without lower-casing it.
Keeps_case_sensitive(node_type, q, kind) ==
    /\ ~(q # <<>> /\ ~In(q, node_type.node_type_id))
    /\ ~(kind # None /\ Some(node_type.kind) # kind)

\* The loop body: node_type reaches out.append when neither `continue` is taken.
Keeps(node_type, q, kind) ==
    /\ ~(q # <<>> /\ ~In(q, lower(node_type.node_type_id)))
    /\ ~(kind # None /\ Some(node_type.kind) # kind)

\* The loop over the stored values: out, in iteration order.
RECURSIVE Filter(_, _, _)
Filter(nts, q, kind) ==
    IF nts = <<>> THEN <<>>
    ELSE (IF Keeps(Head(nts), q, kind) THEN <<Head(nts)>> ELSE <<>>)
         \o Filter(Tail(nts), q, kind)

\* (a.node_type_id, a.version) < (b.node_type_id, b.version), as Python compares
\* tuples of strings.
SortKeyLess(a, b) ==
    \/ StrLess(a.node_type_id, b.node_type_id)
    \/ a.node_type_id = b.node_type_id /\ StrLess(a.version, b.version)

\* xs, sorted by the key, with x inserted after every element whose key is <= x's.
InsertByKey(xs, x) ==
    LET k == Cardinality({i \in 1..Len(xs) : ~SortKeyLess(x, xs[i])})
    IN  SubSeq(xs, 1, k) \o <<x>> \o SubSeq(xs, k + 1, Len(xs))

\* out left in the order of the loop, never sorted.
sort_insertion_order(out) == out

\* out.sort(key=lambda nt: (nt.node_type_id, nt.version)) (stable)
RECURSIVE sort(_)
sort(out) ==
    IF out = <<>> THEN <<>>
    ELSE InsertByKey(sort(SubSeq(out, 1, Len(out) - 1)), out[Len(out)])

list_node_types(self, request) ==
    Return(sort(Filter(values(self), Query(request), request.params.kind)))

-----------------------------------------------------------------------------
(* health and version *)

\* utils.now(): the current time, which is the reading of the wall clock.
now == clock

Health(status, time) == [status |-> status, time |-> time]

VersionInfo(service_name, service_version, supported_api_versions) ==
    [service_name |-> service_name, service_version |-> service_version,
     supported_api_versions |-> supported_api_versions]

\* The two requests carry nothing the registry reads.
NodeRegistryHealthRequest == [params |-> None]
NodeRegistryVersionRequest == [params |-> None]

health(self, request) == Return(Health("ok", now))

\* NodeRegistry.version (the name version is taken by the version strings)
version_info(self, request) ==
    Return(VersionInfo(self._service_name, self._service_version, <<"v1">>))

-----------------------------------------------------------------------------
(* Inputs *)

\* The number of entries the model lets the store hold.
MaxEntries == 3

\* The last reading the model lets the wall clock reach.
MaxClock == 2

\* The number of publish_node_type coroutines the model hands to the event loop.
MaxTasks == 3

FooBar == <<"f", "o", "o", ".", "b", "a", "r">>
FooBaz == <<"F", "o", "o", ".", "b", "a", "z">>

V_0_2_0 == <<"0", ".", "2", ".", "0">>
V_0_10_0 == <<"0", ".", "1", "0", ".", "0">>
V_0_0_1 == <<"0", ".", "0", ".", "1">>
V_1_0_0 == <<"1", ".", "0", ".", "0">>
V_1_0_0_alpha == <<"1", ".", "0", ".", "0", "-", "a", "l", "p", "h", "a">>
V_1_0_0_rc_1 == <<"1", ".", "0", ".", "0", "-", "r", "c", ".", "1">>
V_v1_0_0 == <<"v", "1", ".", "0", ".", "0">>
V_1_0_0_build == <<"1", ".", "0", ".", "0", "+", "a">>
V_1_0_0_build_b == <<"1", ".", "0", ".", "0", "+", "b">>
V_01_0_0 == <<"0", "1", ".", "0", ".", "0">>
V_release_a == <<"r", "e", "l", "e", "a", "s", "e", "-", "a">>
V_release_b == <<"r", "e", "l", "e", "a", "s", "e", "-", "b">>
V_zzz == <<"z", "z", "z">>
V_empty == <<>>
V_1_0_0_alpha_1 == <<"1", ".", "0", ".", "0", "-", "a", "l", "p", "h", "a", ".", "1">>
V_1_0_0_alpha_2 == <<"1", ".", "0", ".", "0", "-", "a", "l", "p", "h", "a", ".", "2">>
V_1_0_0_alpha_10 ==
    <<"1", ".", "0", ".", "0", "-", "a", "l", "p", "h", "a", ".", "1", "0">>
V_1_0_0_alpha_beta ==
    <<"1", ".", "0", ".", "0", "-", "a", "l", "p", "h", "a", ".", "b", "e", "t", "a">>
V_1_0_0_Beta == <<"1", ".", "0", ".", "0", "-", "B", "e", "t", "a">>
V_1_0_0_pre_2 == <<"1", ".", "0", ".", "0", "-", "2">>
V_1_0_0_pre_10 == <<"1", ".", "0", ".", "0", "-", "1", "0">>

NodeTypeIds == {FooBar, FooBaz}
NodeKinds == {"atomic", "composite"}
Versions == {V_0_2_0, V_0_10_0, V_zzz}
NodeTypes ==
    {NodeType(id, v, k) : id \in NodeTypeIds, v \in Versions, k \in NodeKinds}

\* The inputs of the runs about the resolution of the latest version.
LatestNodeTypeIds == {FooBar}
LatestVersions ==
    {V_0_2_0, V_0_10_0, V_0_0_1, V_1_0_0, V_v1_0_0, V_1_0_0_build, V_1_0_0_build_b,
     V_1_0_0_alpha,
     V_1_0_0_rc_1, V_01_0_0, V_release_a, V_release_b, V_zzz}
LatestNodeTypes == {NodeType(id, v, "atomic") : id \in LatestNodeTypeIds, v \in LatestVersions}

\* The inputs of the runs about the latest version over time.
MonotoneVersions ==
    {V_0_2_0, V_0_10_0, V_1_0_0_alpha, V_1_0_0, V_release_a, V_zzz}
MonotoneNodeTypes ==
    {NodeType(id, v, "atomic") : id \in LatestNodeTypeIds, v \in MonotoneVersions}

\* The inputs of the runs about numeric fields too long for int().
V_long == [i \in 1..(int_max_str_digits + 1) |-> "1"] \o <<".", "0", ".", "0">>
LongVersions == {V_long, V_0_2_0, V_1_0_0, V_zzz}
LongNodeTypes ==
    {NodeType(id, v, "atomic") : id \in LatestNodeTypeIds, v \in LongVersions}

\* The inputs of the runs about the order of prereleases.
PrereleaseVersions ==
    {V_1_0_0_alpha, V_1_0_0_alpha_1, V_1_0_0_alpha_2, V_1_0_0_alpha_10,
     V_1_0_0_alpha_beta, V_1_0_0_Beta, V_1_0_0_pre_2, V_1_0_0_pre_10, V_1_0_0}
PrereleaseNodeTypes ==
    {NodeType(id, v, "atomic") : id \in LatestNodeTypeIds, v \in PrereleaseVersions}

\* The inputs of the runs about the read operations.
Q_blank == <<" ">>
Q_foo_b == <<"f", "o", "o", ".", "b">>
Q_BAZ == <<" ", "B", "A", "Z", "\n">>
Q_qux == <<"q", "u", "x">>

ReadVersions == {V_0_2_0, V_0_10_0}
ReadNodeTypes ==
    {NodeType(id, v, k) : id \in NodeTypeIds, v \in ReadVersions, k \in NodeKinds}
Queries == {None, Q_blank, Q_foo_b, Q_BAZ, Q_qux}
KindParams == {None} \cup {Some(kind) : kind \in NodeKinds}

\* The payloads of the runs about concurrent publishes.
ConcurrentNodeTypes ==
    {NodeType(FooBar, v, k) : v \in ReadVersions, k \in NodeKinds}

-----------------------------------------------------------------------------
(* The state machine *)

\* NodeRegistry.__init__
Init ==
    /\ store = [key \in {} |-> None]
    /\ versions = [node_type_id \in {} |-> <<>>]
    /\ result = [op |-> "__init__", request |-> None, response |-> Return(None)]
    /\ order = <<>>
    /\ clock = 0
    /\ tasks = <<>>

\* A call of publish_node_type.  New pairs are accepted while the store holds
\* fewer than MaxEntries entries.
PublishNodeType(node_type) ==
    /\ \/ <<node_type.node_type_id, node_type.version>> \in DOMAIN store
       \/ Cardinality(DOMAIN store) < MaxEntries
    /\ publish_node_type(NodeRegistryPublishNodeTypeRequest(node_type))
    /\ order' = DictOrder(order, DOMAIN store')
    /\ UNCHANGED <<clock, tasks>>

\* A call of get_node_type that reads the index with self._versions[node_type_id]:
\* the defaultdict creates an empty list for an id it does not hold.
GetNodeType_defaultdict_lookup(node_type_id, version) ==
    /\ result' = [op |-> "get_node_type",
                  request |-> NodeRegistryGetNodeTypeRequest(node_type_id, version),
                  response |-> get_node_type(
                      Self, NodeRegistryGetNodeTypeRequest(node_type_id, version))]
    /\ versions' = DictSet(versions, node_type_id, DictGet(versions, node_type_id, <<>>))
    /\ UNCHANGED <<store, order, clock, tasks>>

\* A call of get_node_type that resolves an omitted version with versions.pop():
\* it returns the entry of the version published last and takes that version off
\* the index.
GetNodeType_pops_version(node_type_id, version) ==
    /\ result' = [op |-> "get_node_type",
                  request |-> NodeRegistryGetNodeTypeRequest(node_type_id, version),
                  response |->
                      IF version = None /\ DictGet(versions, node_type_id, <<>>) # <<>>
                      THEN LookUp(Self, node_type_id,
                                  versions[node_type_id][Len(versions[node_type_id])])
                      ELSE get_node_type(
                               Self, NodeRegistryGetNodeTypeRequest(node_type_id, version))]
    /\ versions' = IF version = None /\ DictGet(versions, node_type_id, <<>>) # <<>>
                   THEN [versions EXCEPT ![node_type_id] =
                             SubSeq(@, 1, Len(@) - 1)]
                   ELSE versions
    /\ UNCHANGED <<store, order, clock, tasks>>

\* A call of get_node_type; version is a string or None.
GetNodeType(node_type_id, version) ==
    /\ result' = [op |-> "get_node_type",
                  request |-> NodeRegistryGetNodeTypeRequest(node_type_id, version),
                  response |-> get_node_type(
                      Self, NodeRegistryGetNodeTypeRequest(node_type_id, version))]
    /\ UNCHANGED <<store, versions, order, clock, tasks>>

Next ==
    \/ \E node_type \in NodeTypes : PublishNodeType(node_type)
    \/ \E node_type_id \in NodeTypeIds, version \in Versions \cup {None, V_empty} :
           GetNodeType(node_type_id, version)

Spec == Init /\ [][Next]_vars

NextLatest ==
    \/ \E node_type \in LatestNodeTypes : PublishNodeType(node_type)
    \/ \E node_type_id \in LatestNodeTypeIds, version \in LatestVersions \cup {None} :
           GetNodeType(node_type_id, version)

SpecLatest == Init /\ [][NextLatest]_vars

NextPrerelease ==
    \/ \E node_type \in PrereleaseNodeTypes : PublishNodeType(node_type)
    \/ \E node_type_id \in LatestNodeTypeIds, version \in PrereleaseVersions \cup {None} :
           GetNodeType(node_type_id, version)

SpecPrerelease == Init /\ [][NextPrerelease]_vars

NextMonotone ==
    \/ \E node_type \in MonotoneNodeTypes : PublishNodeType(node_type)
    \/ \E node_type_id \in LatestNodeTypeIds, version \in MonotoneVersions \cup {None} :
           GetNodeType(node_type_id, version)

SpecMonotone == Init /\ [][NextMonotone]_vars

NextLong ==
    \/ \E node_type \in LongNodeTypes : PublishNodeType(node_type)
    \/ \E node_type_id \in LatestNodeTypeIds, version \in LongVersions \cup {None} :
           GetNodeType(node_type_id, version)

SpecLong == Init /\ [][NextLong]_vars

\* A call of list_node_types; q is a string or None, kind a NodeKind or None.
ListNodeTypes(q, kind) ==
    /\ result' = [op |-> "list_node_types",
                  request |-> NodeRegistryListNodeTypesRequest(q, kind),
                  response |-> list_node_types(
                      Self, NodeRegistryListNodeTypesRequest(q, kind))]
    /\ UNCHANGED <<store, versions, order, clock, tasks>>

\* A call of health.
HealthCall ==
    /\ result' = [op |-> "health", request |-> NodeRegistryHealthRequest,
                  response |-> health(Self, NodeRegistryHealthRequest)]
    /\ UNCHANGED <<store, versions, order, clock, tasks>>

\* A call of version.
VersionCall ==
    /\ result' = [op |-> "version", request |-> NodeRegistryVersionRequest,
                  response |-> version_info(Self, NodeRegistryVersionRequest)]
    /\ UNCHANGED <<store, versions, order, clock, tasks>>

\* Time passes between two calls.
Tick ==
    /\ clock < MaxClock
    /\ clock' = clock + 1
    /\ UNCHANGED <<store, versions, order, result, tasks>>

NextReads ==
    \/ \E node_type \in ReadNodeTypes : PublishNodeType(node_type)
    \/ \E node_type_id \in NodeTypeIds, version \in ReadVersions \cup {None} :
           GetNodeType(node_type_id, version)
    \/ \E q \in Queries, kind \in KindParams : ListNodeTypes(q, kind)
    \/ HealthCall
    \/ VersionCall
    \/ Tick

SpecReads == Init /\ [][NextReads]_vars

\* A caller calls publish_node_type: the coroutine exists and waits for the
\* event loop to run it.
CreateTask(node_type) ==
    /\ Len(tasks) < MaxTasks
    /\ tasks' = Append(tasks, [request |-> NodeRegistryPublishNodeTypeRequest(node_type),
                               pc |-> "pending",
                               response |-> Return(None)])
    /\ UNCHANGED <<store, versions, order, result, clock>>

\* The event loop runs task t as if publish_node_type awaited between its check
\* and its two writes: the first run ends after the check, the second one
\* writes and returns.
RunTask_awaits_after_check(t) ==
    LET request == tasks[t].request
        node_type == request.body.node_type
        key == <<node_type.node_type_id, node_type.version>>
    IN  \/ /\ tasks[t].pc = "pending"
           /\ key \in DOMAIN store
           /\ result' = [op |-> "publish_node_type", request |-> request,
                         response |-> Raise(AlreadyExists(node_type.node_type_id,
                                                              node_type.version))]
           /\ tasks' = [tasks EXCEPT ![t].pc = "done", ![t].response = result'.response]
           /\ UNCHANGED <<store, versions, order, clock>>
        \/ /\ tasks[t].pc = "pending"
           /\ key \notin DOMAIN store
           /\ tasks' = [tasks EXCEPT ![t].pc = "checked"]
           /\ UNCHANGED <<store, versions, order, result, clock>>
        \/ /\ tasks[t].pc = "checked"
           /\ store' = DictSet(store, key, node_type)
           /\ versions' = DefaultDictAppend(versions, node_type.node_type_id,
                                            node_type.version)
           /\ order' = DictOrder(order, DOMAIN store')
           /\ result' = [op |-> "publish_node_type", request |-> request,
                         response |-> Return(node_type)]
           /\ tasks' = [tasks EXCEPT ![t].pc = "done", ![t].response = result'.response]
           /\ UNCHANGED clock

\* The event loop runs task t.  publish_node_type holds no await, so the
\* coroutine runs from its first line to its return or raise before the loop
\* runs anything else.
RunTask(t) ==
    /\ tasks[t].pc = "pending"
    /\ publish_node_type(tasks[t].request)
    /\ order' = DictOrder(order, DOMAIN store')
    /\ tasks' = [tasks EXCEPT ![t].pc = "done", ![t].response = result'.response]
    /\ UNCHANGED clock

NextConcurrent ==
    \/ \E node_type \in ConcurrentNodeTypes : CreateTask(node_type)
    \/ \E t \in 1..Len(tasks) : RunTask(t)

SpecConcurrent == Init /\ [][NextConcurrent]_vars
-----------------------------------------------------------------------------
(* Properties *)

\* The pair (node_type_id, version) a NodeType is stored under.
KeyOf(node_type) == <<node_type.node_type_id, node_type.version>>

\* The last call was publish_node_type and it raised AlreadyExists.
PublishConflicted ==
    /\ result.op = "publish_node_type"
    /\ result.response.raised
    /\ result.response.value.code = "node_type_already_exists"
    /\ result.response.value.status_code = 409

\* The last call was publish_node_type and it returned.
PublishSucceeded == result.op = "publish_node_type" /\ ~result.response.raised

\* C1 (uniqueness): a publish_node_type call for a pair that is absent from the
\* store returns its payload and makes the store one entry larger; the
\* publish_node_type call that directly follows a successful one for the same
\* pair, whatever its payload, raises AlreadyExists (node_type_already_exists,
\* 409) and leaves the number of entries as the first call made it.
C1_Uniqueness ==
    [][result'.op = "publish_node_type" =>
         LET node_type == result'.request.body.node_type
         IN  /\ KeyOf(node_type) \notin DOMAIN store =>
                    /\ result'.response = Return(node_type)
                    /\ KeyOf(node_type) \in DOMAIN store'
                    /\ Cardinality(DOMAIN store') = Cardinality(DOMAIN store) + 1
             /\ (PublishSucceeded /\ KeyOf(result.request.body.node_type) = KeyOf(node_type)) =>
                    /\ PublishConflicted'
                    /\ Cardinality(DOMAIN store') = Cardinality(DOMAIN store)]_vars

\* C1 witness: a second publish of the only stored pair, with a payload that
\* differs from the stored one, has raised AlreadyExists.
C1_Witness ==
    /\ PublishConflicted
    /\ Cardinality(DOMAIN store) = 1
    /\ store[KeyOf(result.request.body.node_type)] # result.request.body.node_type

\* C2: a publish_node_type call that raises AlreadyExists changes neither the
\* store nor the version index.
C2_ConflictLeavesStateUnchanged ==
    [][(result'.op = "publish_node_type" /\ result'.response.raised) =>
           (store' = store /\ versions' = versions)]_vars

\* C2 witness: a conflicting publish with a different payload has raised while
\* the id holds other versions too; the stored payload is still the old one and
\* the version is listed once.
C2_Witness ==
    /\ PublishConflicted
    /\ LET node_type == result.request.body.node_type
           listed == versions[node_type.node_type_id]
       IN  /\ store[KeyOf(node_type)].kind # node_type.kind
           /\ Len(listed) >= 2
           /\ Cardinality({i \in 1..Len(listed) : listed[i] = node_type.version}) = 1

\* What get_node_type(node_type_id, version) returns or raises on registry self.
Got(self, node_type_id, version) ==
    get_node_type(self, NodeRegistryGetNodeTypeRequest(node_type_id, version))

\* C3 (round trip, immutability): right after publish_node_type returned for a
\* payload, get_node_type of its (id, version) returns that payload; and
\* whatever get_node_type(id, version) returns before a step it returns after
\* the step, so the payload is returned in every later state.
C3_RoundTrip ==
    [][/\ \A node_type \in NodeTypes :
              (/\ result'.op = "publish_node_type"
               /\ result'.request = NodeRegistryPublishNodeTypeRequest(node_type)
               /\ ~result'.response.raised) =>
                  Got(Self', node_type.node_type_id, node_type.version) = Return(node_type)
       /\ \A node_type_id \in NodeTypeIds, version \in Versions :
              ~Got(Self, node_type_id, version).raised =>
                  Got(Self', node_type_id, version) = Got(Self, node_type_id, version)]_vars

\* C3 witness: get_node_type with an explicit version has returned the payload
\* of the first version published for an id, after later publishes for the
\* same id and with the store full.
C3_Witness ==
    /\ result.op = "get_node_type"
    /\ result.request.params.version # None
    /\ ~result.response.raised
    /\ LET node_type_id == result.request.params.node_type_id
       IN  /\ Len(versions[node_type_id]) >= 2
           /\ versions[node_type_id][1] = result.request.params.version
           /\ result.response.value = store[<<node_type_id, result.request.params.version>>]
           /\ result.response.value.kind = "composite"
    /\ Cardinality(DOMAIN store) = MaxEntries

\* C4: every version the index lists for an id has its entry in the store.
C4_IndexedVersionsAreStored ==
    \A node_type_id \in DOMAIN versions :
        \A i \in 1..Len(versions[node_type_id]) :
            <<node_type_id, versions[node_type_id][i]>> \in DOMAIN store

\* C4 witness: a publish has just returned, both ids are indexed and one of
\* them lists two versions.
C4_Witness ==
    /\ PublishSucceeded
    /\ DOMAIN versions = NodeTypeIds
    /\ \E node_type_id \in DOMAIN versions : Len(versions[node_type_id]) = 2

\* The last call was get_node_type with the version omitted.
LatestAsked == result.op = "get_node_type" /\ result.request.params.version = None

\* The last call was get_node_type and it raised NotFound.
GetNotFound ==
    /\ result.op = "get_node_type"
    /\ result.response.raised
    /\ result.response.value.code = "node_type_not_found"
    /\ result.response.value.status_code = 404

\* The versions the index lists for an id.
Listed(node_type_id) ==
    {versions[node_type_id][i] : i \in 1..Len(DictGet(versions, node_type_id, <<>>))}

\* version parses as a semantic version, and has no prerelease.
ParsesAsSemver(version) == _SEMVER_RE_match(version) # None
IsRelease(version) == ParsesAsSemver(version) /\ _SEMVER_RE_match(version)[4] = None

\* (MAJOR, MINOR, PATCH) of a version that parses, as numbers.
Triple(version) ==
    LET match == _SEMVER_RE_match(version)
    IN  <<int(match[1]), int(match[2]), int(match[3])>>

\* a <= b, comparing MAJOR, then MINOR, then PATCH numerically.
TripleLeq(a, b) ==
    \/ a[1] < b[1]
    \/ a[1] = b[1] /\ a[2] < b[2]
    \/ a[1] = b[1] /\ a[2] = b[2] /\ a[3] <= b[3]

\* C5: when every version listed for the id parses as a semantic version
\* without prerelease, get_node_type without a version returns a listed entry
\* of the id whose (MAJOR, MINOR, PATCH) no listed version exceeds numerically;
\* with exactly 0.2.0 and 0.10.0 listed it returns 0.10.0.
C5_LatestIsNumericMaximum ==
    LatestAsked =>
        LET node_type_id == result.request.params.node_type_id
        IN  (/\ Listed(node_type_id) # {}
             /\ \A v \in Listed(node_type_id) : IsRelease(v)) =>
                /\ ~result.response.raised
                /\ result.response.value.node_type_id = node_type_id
                /\ result.response.value.version \in Listed(node_type_id)
                /\ \A v \in Listed(node_type_id) :
                       TripleLeq(Triple(v), Triple(result.response.value.version))
                /\ Listed(node_type_id) = {V_0_2_0, V_0_10_0} =>
                       result.response.value.version = V_0_10_0

\* C5 witness: 0.10.0 was published before 0.2.0 (which is the greater string
\* and the later publish), and get_node_type without a version returned 0.10.0.
C5_Witness ==
    /\ LatestAsked
    /\ ~result.response.raised
    /\ versions[result.request.params.node_type_id] = <<V_0_10_0, V_0_2_0>>
    /\ result.response.value.version = V_0_10_0

\* C6: get_node_type without a version never returns a prerelease version
\* X.Y.Z-PRE while the release X.Y.Z is listed for the id; with exactly
\* 1.0.0-alpha and 1.0.0 listed it returns 1.0.0.
C6_ReleaseBeatsPrerelease ==
    (LatestAsked /\ ~result.response.raised) =>
        LET node_type_id == result.request.params.node_type_id
            returned == result.response.value.version
        IN  /\ ~(/\ ParsesAsSemver(returned)
                 /\ ~IsRelease(returned)
                 /\ \E v \in Listed(node_type_id) :
                        IsRelease(v) /\ Triple(v) = Triple(returned))
            /\ Listed(node_type_id) = {V_1_0_0_alpha, V_1_0_0} => returned = V_1_0_0

\* C6 witness: 1.0.0 was published first and two prereleases of 1.0.0 after
\* it, and get_node_type without a version returned 1.0.0.
C6_Witness ==
    /\ LatestAsked
    /\ ~result.response.raised
    /\ versions[result.request.params.node_type_id] = <<V_1_0_0, V_1_0_0_alpha, V_1_0_0_rc_1>>
    /\ result.response.value.version = V_1_0_0

\* C7: when no version listed for the id parses as a semantic version,
\* get_node_type without a version returns a listed entry whose version string
\* no listed version exceeds in code-point order; with exactly release-a and
\* release-b listed it returns release-b.
C7_NonSemverFallbackIsStringMaximum ==
    LatestAsked =>
        LET node_type_id == result.request.params.node_type_id
        IN  (/\ Listed(node_type_id) # {}
             /\ \A v \in Listed(node_type_id) : ~ParsesAsSemver(v)) =>
                /\ ~result.response.raised
                /\ result.response.value.node_type_id = node_type_id
                /\ result.response.value.version \in Listed(node_type_id)
                /\ \A v \in Listed(node_type_id) :
                       ~StrLess(result.response.value.version, v)
                /\ Listed(node_type_id) = {V_release_a, V_release_b} =>
                       result.response.value.version = V_release_b

\* C7 witness: release-b was published before release-a, and get_node_type
\* without a version returned release-b.
C7_Witness ==
    /\ LatestAsked
    /\ ~result.response.raised
    /\ versions[result.request.params.node_type_id] = <<V_release_b, V_release_a>>
    /\ result.response.value.version = V_release_b

\* C8: when at least one version listed for the id parses as a semantic
\* version, get_node_type without a version returns a version that parses;
\* with exactly zzz and 0.0.1 listed it returns 0.0.1.
C8_MixedSetResolvesToSemver ==
    LatestAsked =>
        LET node_type_id == result.request.params.node_type_id
        IN  (\E v \in Listed(node_type_id) : ParsesAsSemver(v)) =>
                /\ ~result.response.raised
                /\ result.response.value.version \in Listed(node_type_id)
                /\ ParsesAsSemver(result.response.value.version)
                /\ Listed(node_type_id) = {V_zzz, V_0_0_1} =>
                       result.response.value.version = V_0_0_1

\* C8 witness: 0.0.1 was published, then zzz and 01.0.0, which do not parse and
\* are greater strings, and get_node_type without a version returned 0.0.1.
C8_Witness ==
    /\ LatestAsked
    /\ ~result.response.raised
    /\ versions[result.request.params.node_type_id] = <<V_0_0_1, V_zzz, V_01_0_0>>
    /\ result.response.value.version = V_0_0_1

\* C9: get_node_type without a version for an id with no listed version raises
\* NotFound (node_type_not_found, 404) whose message is "NodeType '<id>' not
\* found": the id alone, with no "@" and no version after it.
C9_UnknownIdNotFound ==
    (LatestAsked /\ Listed(result.request.params.node_type_id) = {}) =>
        /\ GetNotFound
        /\ result.response.value.message =
               MsgNodeType \o result.request.params.node_type_id \o MsgNotFound
        /\ \A i \in 1..Len(result.response.value.message) :
               result.response.value.message[i] # "@"

\* C9 witness: only the other id has been published, and get_node_type without
\* a version raised NotFound for this id.
C9_Witness ==
    /\ LatestAsked
    /\ GetNotFound
    /\ DOMAIN versions # {}
    /\ result.request.params.node_type_id \notin DOMAIN versions

\* C10: get_node_type with an explicit version whose (id, version) is no key
\* of the store raises NotFound (node_type_not_found, 404) whose message is
\* "NodeType '<id>@<version>' not found", whatever else is published.
C10_ExplicitVersionNotFound ==
    (/\ result.op = "get_node_type"
     /\ result.request.params.version # None
     /\ <<result.request.params.node_type_id, result.request.params.version>>
            \notin DOMAIN store) =>
        /\ GetNotFound
        /\ result.response.value.message =
               MsgNodeType \o result.request.params.node_type_id \o At
                   \o result.request.params.version \o MsgNotFound

\* C10 witness: get_node_type with an explicit version raised NotFound for an
\* id that has two other versions published.
C10_Witness ==
    /\ result.op = "get_node_type"
    /\ result.request.params.version # None
    /\ GetNotFound
    /\ Cardinality(Listed(result.request.params.node_type_id)) = 2

\* The last call was list_node_types.
ListAsked == result.op = "list_node_types"

\* q without its leading and trailing whitespace: what lies between its first
\* and its last non-whitespace character.
Trimmed(q) ==
    LET inked == {i \in 1..Len(q) : ~IsSpace(q[i])}
    IN  IF inked = {} THEN <<>>
        ELSE SubSeq(q, CHOOSE i \in inked : \A j \in inked : i <= j,
                       CHOOSE i \in inked : \A j \in inked : i >= j)

\* a and b are the same text up to the case of their letters.
SameIgnoringCase(a, b) ==
    Len(a) = Len(b) /\ \A i \in 1..Len(a) : LowerChar(a[i]) = LowerChar(b[i])

\* q occurs in s up to the case of the letters.
OccursIgnoringCase(q, s) ==
    \E i \in 0..(Len(s) - Len(q)) : SameIgnoringCase(SubSeq(s, i + 1, i + Len(q)), q)

\* node_type satisfies both filters of a list_node_types request.
SatisfiesFilters(node_type, request) ==
    /\ \/ request.params.q = None
       \/ Trimmed(request.params.q) = <<>>
       \/ OccursIgnoringCase(Trimmed(request.params.q), node_type.node_type_id)
    /\ \/ request.params.kind = None
       \/ request.params.kind = Some(node_type.kind)

\* C11 (list filters): list_node_types returns, never raises, and its result
\* holds stored entries only, every stored entry exactly once when it satisfies
\* both filters (the trimmed query is empty or occurs in node_type_id up to
\* case; the kind is absent or equal) and not at all otherwise; so the result
\* is the empty list when nothing matches or the registry is empty.
C11_ListFilters ==
    ListAsked =>
        /\ ~result.response.raised
        /\ \A i \in 1..Len(result.response.value) :
               /\ KeyOf(result.response.value[i]) \in DOMAIN store
               /\ store[KeyOf(result.response.value[i])] = result.response.value[i]
        /\ \A key \in DOMAIN store :
               Cardinality({i \in 1..Len(result.response.value) :
                                result.response.value[i] = store[key]})
               = IF SatisfiesFilters(store[key], result.request) THEN 1 ELSE 0

\* A list with the query "foo.b" and the kind atomic that returned "Foo.baz",
\* whose capital letter the query does not have, and left a composite entry out.
C11_Witness ==
    /\ ListAsked
    /\ result.request = NodeRegistryListNodeTypesRequest(Q_foo_b, Some("atomic"))
    /\ \E i \in 1..Len(result.response.value) :
           result.response.value[i].node_type_id = FooBaz
    /\ \E key \in DOMAIN store : store[key].kind = "composite"

\* a sorts before b in the ordinary comparison of strings: at the first
\* position where they differ a has the smaller code point, or a ends there.
CodePointBefore(a, b) ==
    \E k \in 1..Len(b) :
        /\ \A i \in 1..(k - 1) : i <= Len(a) /\ a[i] = b[i]
        /\ \/ Len(a) = k - 1
           \/ Len(a) >= k /\ CodePoint[a[k]] < CodePoint[b[k]]

\* C12 (list order): the result of list_node_types ascends strictly by
\* node_type_id and, within one node_type_id, by version, both compared as
\* ordinary strings, in whatever order the entries were published; the order
\* knows no semantic versions: 0.10.0 stands before 0.2.0 of the same id, while
\* get_node_type without a version resolves that id to 0.10.0.
C12_ListSorted ==
    ListAsked =>
        \A i, j \in 1..Len(result.response.value) :
            LET a == result.response.value[i]
                b == result.response.value[j]
            IN  /\ i < j =>
                    \/ CodePointBefore(a.node_type_id, b.node_type_id)
                    \/ /\ a.node_type_id = b.node_type_id
                       /\ CodePointBefore(a.version, b.version)
                /\ (/\ a.node_type_id = b.node_type_id
                    /\ a.version = V_0_10_0
                    /\ b.version = V_0_2_0) =>
                       /\ i < j
                       /\ Got(Self, a.node_type_id, None) = Return(a)

\* A list that returned three entries in another order than they were
\* published in, 0.10.0 and 0.2.0 of one id among them.
C12_Witness ==
    /\ ListAsked
    /\ Len(result.response.value) = 3
    /\ \E i \in 1..3 : KeyOf(result.response.value[i]) # order[i]
    /\ \E i, j \in 1..3 :
           /\ result.response.value[i].node_type_id = result.response.value[j].node_type_id
           /\ result.response.value[i].version = V_0_10_0
           /\ result.response.value[j].version = V_0_2_0

\* The step is a call of publish_node_type (one that repeats the call before it
\* with the same outcome changes nothing and is no step).
PublishStep ==
    /\ result'.op = "publish_node_type"
    /\ result.op = "publish_node_type" =>
           \/ result'.request # result.request
           \/ result'.response.raised # result.response.raised

\* Across the step get_node_type, list_node_types and version return for every
\* request what they returned before it (as they do when the step leaves the
\* registry as it was, the three being functions of the registry).
ReadsRepeat ==
    \/ Self' = Self
    \/ /\ \A node_type_id \in NodeTypeIds, v \in ReadVersions \cup {None} :
              Got(Self', node_type_id, v) = Got(Self, node_type_id, v)
       /\ \A q \in Queries, kind \in KindParams :
              list_node_types(Self', NodeRegistryListNodeTypesRequest(q, kind))
              = list_node_types(Self, NodeRegistryListNodeTypesRequest(q, kind))
       /\ version_info(Self', NodeRegistryVersionRequest)
          = version_info(Self, NodeRegistryVersionRequest)

\* C13 as stated (idempotent reads): across every step that is no publish,
\* health, version, list_node_types and get_node_type return for every request
\* what they returned before the step.
C13_IdempotentReads ==
    [][~PublishStep =>
           /\ ReadsRepeat
           /\ health(Self, NodeRegistryHealthRequest)'
              = health(Self, NodeRegistryHealthRequest)]_vars

\* C13 amended: across every step that is no publish, version,
\* list_node_types and get_node_type return for every request what they
\* returned before the step, and health returns the status ok together with the
\* reading of the clock at the call, which is the only part of a read's result
\* that changes without a publish.
C13_ReadsRepeatExceptHealthTime ==
    [][~PublishStep =>
           /\ ReadsRepeat
           /\ health(Self, NodeRegistryHealthRequest)'.value.status = "ok"
           /\ health(Self, NodeRegistryHealthRequest).value.status = "ok"
           /\ health(Self, NodeRegistryHealthRequest)'.value.time = clock'
           /\ ~health(Self, NodeRegistryHealthRequest)'.raised]_vars

\* A health call answered with a later time than the registry was built at,
\* on a registry that holds entries and has just served health.
C13_Witness ==
    /\ result.op = "health"
    /\ result.response.value.status = "ok"
    /\ result.response.value.time > 0
    /\ result.response.value.time < clock
    /\ DOMAIN store # {}

\* The tasks that publish the pair key, and those of them that have finished.
TasksOf(key) ==
    {t \in 1..Len(tasks) : KeyOf(tasks[t].request.body.node_type) = key}
DoneOf(key) == {t \in TasksOf(key) : tasks[t].pc = "done"}
ReturnedOf(key) == {t \in DoneOf(key) : ~tasks[t].response.raised}

\* C14 (publish is atomic with respect to itself): in every interleaving of
\* concurrent publish_node_type calls no call is ever between its check and its
\* insertion, and for every pair (id, v) that calls publish: as soon as one of
\* them has finished exactly one has returned, every other finished one has
\* raised AlreadyExists, the store holds the payload of the one that returned,
\* and the index of id lists v exactly once.
C14_PublishAtomic ==
    /\ \A t \in 1..Len(tasks) : tasks[t].pc \in {"pending", "done"}
    /\ \A key \in {KeyOf(tasks[t].request.body.node_type) : t \in 1..Len(tasks)} :
           /\ Cardinality(ReturnedOf(key)) = IF DoneOf(key) = {} THEN 0 ELSE 1
           /\ \A t \in DoneOf(key) \ ReturnedOf(key) :
                  /\ tasks[t].response.value.code = "node_type_already_exists"
                  /\ tasks[t].response.value.status_code = 409
           /\ key \in DOMAIN store <=> DoneOf(key) # {}
           /\ \A t \in ReturnedOf(key) :
                  /\ store[key] = tasks[t].request.body.node_type
                  /\ tasks[t].response.value = tasks[t].request.body.node_type
           /\ Cardinality({i \in 1..Len(DictGet(versions, key[1], <<>>)) :
                               versions[key[1]][i] = key[2]})
              = IF DoneOf(key) = {} THEN 0 ELSE 1

\* Three concurrent publishes of one pair have all finished; the one that
\* returned was neither called first nor carries the kind of the first.
C14_Witness ==
    /\ Len(tasks) = 3
    /\ \A t \in 1..3 :
           /\ tasks[t].pc = "done"
           /\ KeyOf(tasks[t].request.body.node_type) = <<FooBar, V_0_2_0>>
    /\ tasks[1].response.raised
    /\ \E t \in 2..3 :
           /\ ~tasks[t].response.raised
           /\ tasks[t].request.body.node_type.kind # tasks[1].request.body.node_type.kind

\* The prerelease of a version that parses and has one, as its dot-separated
\* identifiers.
Identifiers(version) == split(_SEMVER_RE_match(version)[4])

\* An identifier made of digits only.
IsNumericIdentifier(x) ==
    x # <<>> /\ \A i \in 1..Len(x) : x[i] \in {"0", "1", "2", "3", "4", "5", "6", "7", "8", "9"}

\* x is not above y: two numeric identifiers compare as numbers, a numeric one
\* is below a non-numeric one, two non-numeric ones compare as strings.
IdentifierLeq(x, y) ==
    IF IsNumericIdentifier(x) /\ IsNumericIdentifier(y) THEN int(x) <= int(y)
    ELSE IF IsNumericIdentifier(x) THEN TRUE
    ELSE IF IsNumericIdentifier(y) THEN FALSE
    ELSE x = y \/ CodePointBefore(x, y)

\* a is not above b, comparing identifiers from the left: the first pair that
\* differs decides, and when the shorter one is a prefix it is the lower.
PrereleaseLeq(a, b) ==
    \/ /\ Len(a) <= Len(b)
       /\ \A i \in 1..Len(a) : IdentifierLeq(a[i], b[i]) /\ IdentifierLeq(b[i], a[i])
    \/ \E k \in 1..Len(a) :
           /\ k <= Len(b)
           /\ \A i \in 1..(k - 1) : IdentifierLeq(a[i], b[i]) /\ IdentifierLeq(b[i], a[i])
           /\ IdentifierLeq(a[k], b[k])
           /\ ~IdentifierLeq(b[k], a[k])

\* Every version listed for the id parses, carries a prerelease, and has the
\* MAJOR.MINOR.PATCH of all the others.
AllPrereleasesOfOneRelease(node_type_id) ==
    /\ Listed(node_type_id) # {}
    /\ \A v \in Listed(node_type_id) : ParsesAsSemver(v) /\ ~IsRelease(v)
    /\ \A v, w \in Listed(node_type_id) : Triple(v) = Triple(w)

\* C15 (prerelease ordering): when the versions listed for the id all parse,
\* all carry a prerelease and share MAJOR.MINOR.PATCH, get_node_type without a
\* version returns a listed entry whose prerelease no listed prerelease exceeds,
\* identifiers compared left to right: numeric ones as numbers (alpha.10 above
\* alpha.2), a numeric one below a non-numeric one, non-numeric ones as
\* strings, and a proper prefix below what extends it (alpha below alpha.1).
C15_PrereleaseOrdering ==
    (LatestAsked /\ AllPrereleasesOfOneRelease(result.request.params.node_type_id)) =>
        /\ ~result.response.raised
        /\ result.response.value.node_type_id = result.request.params.node_type_id
        /\ result.response.value.version \in Listed(result.request.params.node_type_id)
        /\ \A v \in Listed(result.request.params.node_type_id) :
               PrereleaseLeq(Identifiers(v), Identifiers(result.response.value.version))
        /\ ({V_1_0_0_alpha_2, V_1_0_0_alpha_10}
                \subseteq Listed(result.request.params.node_type_id)
            => result.response.value.version # V_1_0_0_alpha_2)
        /\ ({V_1_0_0_alpha, V_1_0_0_alpha_1}
                \subseteq Listed(result.request.params.node_type_id)
            => result.response.value.version # V_1_0_0_alpha)

\* get_node_type without a version returned 1.0.0-alpha.10 where that,
\* 1.0.0-alpha.2 and the numeric prerelease 1.0.0-10 were published, 1.0.0-alpha.10
\* first.
C15_Witness ==
    /\ LatestAsked
    /\ ~result.response.raised
    /\ result.response.value.version = V_1_0_0_alpha_10
    /\ DictGet(versions, FooBar, <<>>) = <<V_1_0_0_alpha_10, V_1_0_0_alpha_2, V_1_0_0_pre_10>>

\* The operations that only read.
ReadOps == {"health", "version", "list_node_types", "get_node_type"}

\* C16 (reads have no effect): a call of health, version, list_node_types or
\* get_node_type, returning or raising NotFound, leaves the store, its order
\* and the version index as they were; in particular get_node_type for an id
\* that the index does not hold leaves the index without an entry for it.
C16_ReadsLeaveStateUnchanged ==
    [][result'.op \in ReadOps =>
           /\ store' = store
           /\ order' = order
           /\ versions' = versions
           /\ DOMAIN versions' = DOMAIN versions
           /\ \A node_type_id \in NodeTypeIds :
                  node_type_id \notin DOMAIN versions =>
                      node_type_id \notin DOMAIN versions']_vars

\* get_node_type raised NotFound for an id of which nothing was published, on
\* a registry that holds entries of another id, and the index has no entry for
\* the id.
C16_Witness ==
    /\ GetNotFound
    /\ result.request.params.node_type_id \notin DOMAIN versions
    /\ DOMAIN versions # {}
    /\ DOMAIN store # {}

\* C17 (get-latest is total on a published id): whenever at least one version
\* is listed for the id, whatever mix of parsable and non-parsable strings,
\* get_node_type without a version returns an entry of that id whose version is
\* listed; it raises nothing, so a NotFound from it means that nothing is listed
\* for the id and names the id alone, never a resolved version.
C17_LatestIsTotal ==
    LatestAsked =>
        /\ Listed(result.request.params.node_type_id) # {} =>
               /\ ~result.response.raised
               /\ result.response.value.node_type_id = result.request.params.node_type_id
               /\ result.response.value.version
                      \in Listed(result.request.params.node_type_id)
               /\ store[<<result.request.params.node_type_id,
                          result.response.value.version>>] = result.response.value
        /\ result.response.raised =>
               /\ Listed(result.request.params.node_type_id) = {}
               /\ result.response.value
                      = NotFoundId(result.request.params.node_type_id)

\* The position of version v in the sequence vs that lists it.
PositionIn(vs, v) == CHOOSE i \in 1..Len(vs) : vs[i] = v

\* C18 (ties go to the first published): build metadata and a leading v do not
\* enter the sort key, so 1.0.0, v1.0.0, 1.0.0+a and 1.0.0+b have one key; and
\* when get_node_type without a version returns a version that parses, no
\* version of the id with the same key was published before it: of 1.0.0+a and
\* 1.0.0+b, or of 1.0.0 and v1.0.0, it returns the one published first.
C18_TiesGoToFirstPublished ==
    /\ _semver_key(V_1_0_0_build) = _semver_key(V_1_0_0)
    /\ _semver_key(V_1_0_0_build_b) = _semver_key(V_1_0_0)
    /\ _semver_key(V_v1_0_0) = _semver_key(V_1_0_0)
    /\ (LatestAsked /\ ~result.response.raised
            /\ ParsesAsSemver(result.response.value.version)) =>
           LET vs == versions[result.request.params.node_type_id]
               returned == result.response.value.version
           IN  /\ \A i \in 1..Len(vs) :
                      _semver_key(vs[i]) = _semver_key(returned) =>
                          PositionIn(vs, returned) <= i
               /\ \A pair \in {<<V_1_0_0_build, V_1_0_0_build_b>>, <<V_1_0_0, V_v1_0_0>>} :
                      \A i, j \in 1..Len(vs) :
                          (/\ {vs[i], vs[j]} = {pair[1], pair[2]}
                           /\ i < j
                           /\ returned \in {pair[1], pair[2]}) => returned = vs[i]

\* get_node_type without a version returned 1.0.0+b, published before 1.0.0+a
\* and after a lower version.
C18_Witness ==
    /\ LatestAsked
    /\ ~result.response.raised
    /\ result.response.value.version = V_1_0_0_build_b
    /\ DictGet(versions, FooBar, <<>>) = <<V_0_2_0, V_1_0_0_build_b, V_1_0_0_build>>

\* C19 (latest resolution is monotone): across every step, for an id of which
\* a version that parses as a semantic version is listed before the step,
\* get_node_type without a version returns a version that parses, before the
\* step and after it, and the sort key of the one returned after the step is
\* not below the key of the one returned before it; so no later publish, of a
\* parsable or a non-parsable string, lowers the latest version or makes a
\* non-parsable string the latest.
C19_LatestIsMonotone ==
    [][\/ Self' = Self
       \/ \A node_type_id \in LatestNodeTypeIds :
              (\E v \in Listed(node_type_id) : ParsesAsSemver(v)) =>
                  LET before == Got(Self, node_type_id, None)
                      after == Got(Self', node_type_id, None)
                  IN  /\ ~before.raised
                      /\ ~after.raised
                      /\ ParsesAsSemver(before.value.version)
                      /\ ParsesAsSemver(after.value.version)
                      /\ ~KeyLess(_semver_key(after.value.version),
                                  _semver_key(before.value.version))]_vars

\* get_node_type without a version returned 0.10.0, after which a non-parsable
\* string and then the lower 0.2.0 were published.
C19_Witness ==
    /\ LatestAsked
    /\ ~result.response.raised
    /\ result.response.value.version = V_0_10_0
    /\ DictGet(versions, FooBar, <<>>) = <<V_0_10_0, V_zzz, V_0_2_0>>

\* The sum of the lengths of the version sequences of the index.
RECURSIVE SumOfLengths(_, _)
SumOfLengths(index, ids) ==
    IF ids = {} THEN 0
    ELSE LET node_type_id == CHOOSE x \in ids : TRUE
         IN  Len(index[node_type_id]) + SumOfLengths(index, ids \ {node_type_id})

\* C20 (index and store agree): in every state the index lists, for every id,
\* no version twice and exactly the versions v with (id, v) a key of the store,
\* so that the store has as many entries as the version sequences have elements
\* in all; and every publish_node_type that returns appends its version to the
\* end of the sequence of its id and leaves the rest of the index as it was, so
\* each sequence is in the order of the successful publishes.
C20_IndexAndStoreAgree ==
    /\ [](/\ \A node_type_id \in DOMAIN versions :
                \A i, j \in 1..Len(versions[node_type_id]) :
                    versions[node_type_id][i] = versions[node_type_id][j] => i = j
          /\ UNION {{<<node_type_id, versions[node_type_id][i]>> :
                         i \in 1..Len(versions[node_type_id])} :
                    node_type_id \in DOMAIN versions}
             = DOMAIN store
          /\ \A key \in DOMAIN store :
                 /\ key[1] \in DOMAIN versions
                 /\ \E i \in 1..Len(versions[key[1]]) : versions[key[1]][i] = key[2]
          /\ \A node_type_id \in DOMAIN versions :
                 \A i \in 1..Len(versions[node_type_id]) :
                     <<node_type_id, versions[node_type_id][i]>> \in DOMAIN store
          /\ Cardinality(DOMAIN store) = SumOfLengths(versions, DOMAIN versions))
    /\ [][/\ (result'.op = "publish_node_type" /\ ~result'.response.raised
                 /\ store' # store) =>
                 LET node_type == result'.request.body.node_type
                 IN  /\ versions'[node_type.node_type_id]
                        = Append(DictGet(versions, node_type.node_type_id, <<>>),
                                 node_type.version)
                     /\ \A other \in DOMAIN versions \ {node_type.node_type_id} :
                            versions'[other] = versions[other]
          /\ store' = store => versions' = versions]_vars

\* The index holds two versions of one id, the one published later at the end,
\* and one version of the other id, published between the two.
C20_Witness ==
    /\ DictGet(versions, FooBar, <<>>) = <<V_zzz, V_0_2_0>>
    /\ DictGet(versions, FooBaz, <<>>) = <<V_0_10_0>>
    /\ order = << <<FooBar, V_zzz>>, <<FooBaz, V_0_10_0>>, <<FooBar, V_0_2_0>> >>
    /\ PublishSucceeded
====
